---- MODULE Spec2Model ----
(***************************************************************************)
(* State-machine model of yt_dlp_gui.py: the YtDlpGui window (settings,    *)
(* form widgets, Download button, log view) and the DownloadWorker that    *)
(* builds the yt-dlp command line, runs the child process on its own       *)
(* thread and reports to the UI thread through queued signals.             *)
(*                                                                         *)
(* A text (str) is a sequence of chunks: a chunk is either one whitespace  *)
(* character or a run of non-whitespace characters.  f-strings and list    *)
(* concatenation are \o, str.strip() is Strip.                             *)
(***************************************************************************)
EXTENDS Naturals, Sequences, FiniteSets

VARIABLES
    configFile,       \* contents of app_config.json on disk
    phase,            \* "boot" | "ready" | "crashed" | "closed": where the process is
    video_dir,        \* YtDlpGui.video_dir
    audio_dir,        \* YtDlpGui.audio_dir
    last_save_dir,    \* YtDlpGui.last_save_dir
    window_size,      \* YtDlpGui.window_size (the attribute may not exist)
    size,             \* the window's width and height
    cookies_file_path, \* YtDlpGui.cookies_file_path
    url_input,        \* text of the URL line edit
    audio_only_checkbox,
    override_save_location_checkbox,
    use_cookies_checkbox,
    use_cookies_file_checkbox,
    cookies_browser_combo,
    cookies_profile_input,
    download_btn,     \* enabled state of the Download button
    open_last_save_btn, \* enabled state of the "Open last save location" button
    status_display,   \* lines appended to the log view
    worker,           \* the DownloadWorker objects, by object slot
    queue             \* signals emitted by workers, not yet handled by the UI thread

widgets == <<url_input, audio_only_checkbox, override_save_location_checkbox,
             use_cookies_checkbox, use_cookies_file_checkbox,
             cookies_browser_combo, cookies_profile_input>>

settings == <<video_dir, audio_dir, last_save_dir, window_size, size>>

vars == <<configFile, phase, settings, cookies_file_path, widgets, download_btn,
          open_last_save_btn, status_display, worker, queue>>

----------------------------------------------------------------------------
(* Bounds of the model *)

\* number of DownloadWorker objects that can exist at the same time
MaxWorkers == 2
\* number of lines the child process writes at most
MaxLines == 3
\* Download is no longer clicked once the log view holds this many lines
MaxLog == 4

----------------------------------------------------------------------------
(* Texts *)

WS == {" ", "\t", "\r", "\n"}

RECURSIVE LStrip(_)
LStrip(t) == IF t # <<>> /\ Head(t) \in WS THEN LStrip(Tail(t)) ELSE t

RECURSIVE RStrip(_)
RStrip(t) == IF t # <<>> /\ t[Len(t)] \in WS THEN RStrip(SubSeq(t, 1, Len(t) - 1)) ELSE t

\* str.strip() left out
Strip_None(t) == t

\* str.strip()
Strip(t) == RStrip(LStrip(t))

\* Python's None where a str is expected
None == <<"None">>

\* truth value of a str-or-None
Truthy(t) == t # None /\ t # <<>>

----------------------------------------------------------------------------
(* The environment: file system, settings file, child process *)

HOME == <<"/home/user">>

\* directories that exist
fsDirs == {HOME, <<"/dl">>}

\* os.path.isdir
isdir(p) == p \in fsDirs

\* what QFileDialog.getExistingDirectory returns: "" when cancelled
PickedDirs == {<<>>} \cup (fsDirs \ {HOME})

\* what QFileDialog.getOpenFileName returns: "" when cancelled
PickedFiles == {<<>>, <<"/c.txt">>}

DefaultSize == <<500, 300>>

Absent == [present |-> FALSE, v |-> <<>>]
Val(x) == [present |-> TRUE, v |-> x]

\* a settings file that holds a JSON object: each key present or not
ConfigObject(vd, ad, ls, ws) ==
    [kind |-> "object", video_dir |-> vd, audio_dir |-> ad,
     last_save_dir |-> ls, window_size |-> ws]

\* no file, a file that is not JSON, a file whose JSON is not an object
ConfigOther(k) == [ConfigObject(Absent, Absent, Absent, Absent) EXCEPT !.kind = k]

\* the settings files a start-up is checked against
ConfigFiles ==
    {ConfigOther(k) : k \in {"absent", "garbage", "nonobject"}}
    \cup {ConfigObject(vd, ad, ls, ws) :
             vd \in {Absent, Val(<<"/dl">>), Val(<<"/gone">>)},
             ad \in {Absent, Val(<<"/dl">>)},
             ls \in {Absent, Val(<<>>), Val(<<"/dl">>)},
             ws \in {Absent, Val(<<800, 600>>), Val(<<1024, 768>>)}}

\* the settings files a whole session is checked against
SessionConfigFiles ==
    {ConfigOther("absent"),
     ConfigObject(Val(<<"/gone">>), Val(<<"/dl">>), Val(<<>>), Val(<<800, 600>>))}

\* the i-th line the child process writes, with its line end
Letters == <<"A", "B", "C", "D", "E", "F">>
ChildLine(i) == IF i = 2 THEN <<" ", Letters[i], "\r", "\n">> ELSE <<Letters[i], "\n">>

\* str(e) of the exceptions subprocess.Popen and the read of stdout raise
SpawnError == "[Errno 2] No such file or directory: 'yt-dlp'"
ReadError == "'utf-8' codec can't decode byte 0xff"

----------------------------------------------------------------------------
(* Start-up: YtDlpGui.__init__ *)

NoWindowSize == [has |-> FALSE, none |-> FALSE, v |-> <<>>]

\* dict.get(key, default) on one key of the settings object
Get(entry, default) == IF entry.present THEN entry.v ELSE default

\* load_config: the attributes it leaves, given the ones __init__ has set
load_config(cfg, self) ==
    IF cfg.kind = "object"
    THEN [video_dir |-> Get(cfg.video_dir, self.video_dir),
          audio_dir |-> Get(cfg.audio_dir, self.audio_dir),
          last_save_dir |-> Get(cfg.last_save_dir, self.last_save_dir),
          window_size |-> [has |-> TRUE, none |-> ~cfg.window_size.present,
                           v |-> cfg.window_size.v]]
    ELSE self   \* no file, or the exception is swallowed

\* the value _update_last_save_button_state gives the button
LastSaveButtonState(dir) == Strip(dir) # <<>> /\ isdir(dir)

Defaults == [video_dir |-> HOME, audio_dir |-> HOME, last_save_dir |-> <<>>,
             window_size |-> NoWindowSize]

Construct ==
    /\ phase = "boot"
    /\ LET self == load_config(configFile, Defaults) IN
         /\ video_dir' = self.video_dir
         /\ audio_dir' = self.audio_dir
         /\ last_save_dir' = self.last_save_dir
         /\ window_size' = self.window_size
         /\ open_last_save_btn' = LastSaveButtonState(self.last_save_dir)
         /\ IF self.window_size.has
            THEN IF self.window_size.none
                 THEN \* QSize(*None): the TypeError leaves __init__
                      /\ phase' = "crashed"
                      /\ size' = size
                 ELSE /\ phase' = "ready"
                      /\ size' = self.window_size.v
            ELSE /\ phase' = "ready"
                 /\ size' = size
    /\ UNCHANGED <<configFile, cookies_file_path, widgets, download_btn,
                   status_display, worker, queue>>

----------------------------------------------------------------------------
(* The form and the directory and cookie-file choosers *)

Form(url, ao, ov, uc, ucf, br, pr) ==
    [url_input |-> url, audio_only_checkbox |-> ao,
     override_save_location_checkbox |-> ov, use_cookies_checkbox |-> uc,
     use_cookies_file_checkbox |-> ucf, cookies_browser_combo |-> br,
     cookies_profile_input |-> pr]

\* the widgets as __init__ leaves them
EmptyForm == Form(<<>>, FALSE, FALSE, FALSE, FALSE, <<"brave">>, <<>>)

\* what the user may put into the form during a whole session
SessionForms ==
    {Form(<<" ">>, FALSE, FALSE, FALSE, FALSE, <<"brave">>, <<>>)}
    \cup {Form(<<" ", "http://x/y", " ">>, FALSE, FALSE, uc, FALSE, <<"brave">>, <<>>) :
             uc \in BOOLEAN}
    \cup {Form(<<" ", "http://x/y", " ">>, ao, TRUE, FALSE, FALSE, <<"brave">>, <<>>) :
             ao \in BOOLEAN}

\* what the user may put into the form when the command line is checked
CommandForms ==
    {Form(<<"http://x/y">>, ao, FALSE, uc, ucf, br, pr) :
        ao \in BOOLEAN, uc \in BOOLEAN, ucf \in BOOLEAN,
        br \in {<<"brave">>, <<"firefox">>},
        pr \in {<<>>, <<" ">>, <<" ", "Default", " ">>}}

\* the user edits the form: no handler of the program runs
EditForm(forms) ==
    /\ phase = "ready"
    /\ \E f \in forms :
         /\ url_input' = f.url_input
         /\ audio_only_checkbox' = f.audio_only_checkbox
         /\ override_save_location_checkbox' = f.override_save_location_checkbox
         /\ use_cookies_checkbox' = f.use_cookies_checkbox
         /\ use_cookies_file_checkbox' = f.use_cookies_file_checkbox
         /\ cookies_browser_combo' = f.cookies_browser_combo
         /\ cookies_profile_input' = f.cookies_profile_input
    /\ UNCHANGED <<configFile, phase, settings, cookies_file_path, download_btn,
                   open_last_save_btn, status_display, worker, queue>>

choose_cookies_file ==
    /\ phase = "ready"
    /\ use_cookies_file_checkbox    \* the button is enabled by the checkbox
    /\ \E file_path \in PickedFiles :
         cookies_file_path' = IF file_path # <<>> THEN file_path ELSE cookies_file_path
    /\ UNCHANGED <<configFile, phase, settings, widgets, download_btn,
                   open_last_save_btn, status_display, worker, queue>>

choose_video_dir ==
    /\ phase = "ready"
    /\ \E dir_path \in PickedDirs :
         video_dir' = IF dir_path # <<>> THEN dir_path ELSE video_dir
    /\ UNCHANGED <<configFile, phase, audio_dir, last_save_dir, window_size, size,
                   cookies_file_path, widgets, download_btn, open_last_save_btn,
                   status_display, worker, queue>>

choose_audio_dir ==
    /\ phase = "ready"
    /\ \E dir_path \in PickedDirs :
         audio_dir' = IF dir_path # <<>> THEN dir_path ELSE audio_dir
    /\ UNCHANGED <<configFile, phase, video_dir, last_save_dir, window_size, size,
                   cookies_file_path, widgets, download_btn, open_last_save_btn,
                   status_display, worker, queue>>

----------------------------------------------------------------------------
(* DownloadWorker *)

Workers == 1 .. MaxWorkers

\* a slot that holds no DownloadWorker object
NoWorker ==
    [pc |-> "free", url |-> <<>>, video_dir |-> <<>>, audio_dir |-> <<>>,
     audio_only |-> FALSE, cookies_browser |-> None, cookies_file |-> None,
     cmd |-> <<>>, err |-> "", spawned |-> FALSE, nread |-> 0, waited |-> FALSE,
     stdout_closed |-> FALSE, emitted |-> <<>>]

\* DownloadWorker.__init__
NewWorker(url, vd, ad, ao, cb, cf) ==
    [NoWorker EXCEPT !.pc = "new", !.url = url, !.video_dir = vd, !.audio_dir = ad,
                     !.audio_only = ao, !.cookies_browser = cb, !.cookies_file = cf]

\* a signal emitted by worker w: output(text) or finished(); from tells which
\* statement of run emitted it
Output(w, text, from) == [w |-> w, kind |-> "output", text |-> text, from |-> from]
Finished(w) == [w |-> w, kind |-> "finished", text |-> <<>>, from |-> "finished"]

\* worker w emits the signals evs, in this order
Emit(w, st, evs) ==
    /\ worker' = [worker EXCEPT ![w] = [st EXCEPT !.emitted = @ \o evs]]
    /\ queue' = queue \o evs

\* the directories of the two modes exchanged
BaseCmd_Swapped(self) ==
    IF self.audio_only
    THEN <<<<"yt-dlp">>, <<"-x">>, <<"--audio-format">>, <<"mp3">>, <<"-P">>, self.video_dir>>
    ELSE <<<<"yt-dlp">>, <<"-P">>, self.audio_dir>>

\* lines 32-44 of run: the command up to the directory, and the first message
BaseCmd(self) ==
    IF self.audio_only
    THEN <<<<"yt-dlp">>, <<"-x">>, <<"--audio-format">>, <<"mp3">>, <<"-P">>, self.audio_dir>>
    ELSE <<<<"yt-dlp">>, <<"-P">>, self.video_dir>>

StartMessage(self) ==
    IF self.audio_only
    THEN <<"Starting audio download: ">> \o self.url
            \o <<"\n", "Download directory: ">> \o self.audio_dir
    ELSE <<"Starting video download: ">> \o self.url
            \o <<"\n", "Download directory: ">> \o self.video_dir

\* lines 45-50 of run: the cookie arguments, and the message about them
CookieArgs(self) ==
    IF Truthy(self.cookies_file) THEN <<<<"--cookies">>, self.cookies_file>>
    ELSE IF Truthy(self.cookies_browser)
         THEN <<<<"--cookies-from-browser">>, self.cookies_browser>>
         ELSE <<>>

CookieMessages(self) ==
    IF Truthy(self.cookies_file)
    THEN <<<<"Using cookies file: ">> \o self.cookies_file>>
    ELSE IF Truthy(self.cookies_browser)
         THEN <<<<"Using cookies from browser: ">> \o self.cookies_browser>>
         ELSE <<>>

\* lines 32-51 of run: the whole command
BuildCmd(self) == BaseCmd(self) \o CookieArgs(self) \o <<self.url>>

\* run, lines 32-51
RunBuild(w) ==
    /\ worker[w].pc = "new"
    /\ Emit(w, [worker[w] EXCEPT !.pc = "spawn", !.cmd = BuildCmd(worker[w])],
            <<Output(w, StartMessage(worker[w]), "start")>>
               \o [i \in 1 .. Len(CookieMessages(worker[w])) |->
                      Output(w, CookieMessages(worker[w])[i], "cookies")])
    /\ UNCHANGED <<configFile, phase, settings, cookies_file_path, widgets,
                   download_btn, open_last_save_btn, status_display>>

\* run, lines 53-58: subprocess.Popen starts the child or raises
RunSpawn(w) ==
    /\ worker[w].pc = "spawn"
    /\ \/ worker' = [worker EXCEPT ![w].pc = "read", ![w].spawned = TRUE]
       \/ worker' = [worker EXCEPT ![w].pc = "except", ![w].err = SpawnError]
    /\ UNCHANGED <<configFile, phase, settings, cookies_file_path, widgets,
                   download_btn, open_last_save_btn, status_display, queue>>

\* run, lines 59-60: one turn of the loop over process.stdout
RunRead(w) ==
    /\ worker[w].pc = "read"
    /\ \/ /\ worker[w].nread < MaxLines
          /\ Emit(w, [worker[w] EXCEPT !.nread = @ + 1],
                  <<Output(w, Strip(ChildLine(worker[w].nread + 1)), "child")>>)
       \/ /\ worker' = [worker EXCEPT ![w].pc = "wait"]      \* end of the stream
          /\ UNCHANGED queue
       \/ /\ worker' = [worker EXCEPT ![w].pc = "except", ![w].err = ReadError]
          /\ UNCHANGED queue
    /\ UNCHANGED <<configFile, phase, settings, cookies_file_path, widgets,
                   download_btn, open_last_save_btn, status_display>>

\* run, lines 61-62
RunWait(w) ==
    /\ worker[w].pc = "wait"
    /\ Emit(w, [worker[w] EXCEPT !.pc = "finish", !.waited = TRUE],
            <<Output(w, <<"Download finished.">>, "end")>>)
    /\ UNCHANGED <<configFile, phase, settings, cookies_file_path, widgets,
                   download_btn, open_last_save_btn, status_display>>

\* no except clause: the exception leaves run, and line 65 is not reached
RunExcept_Uncaught(w) ==
    /\ worker[w].pc = "except"
    /\ worker' = [worker EXCEPT ![w].pc = "done"]
    /\ UNCHANGED <<configFile, phase, settings, cookies_file_path, widgets,
                   download_btn, open_last_save_btn, status_display, queue>>

\* an except clause that only passes
RunExcept_Silent(w) ==
    /\ worker[w].pc = "except"
    /\ worker' = [worker EXCEPT ![w].pc = "finish"]
    /\ UNCHANGED <<configFile, phase, settings, cookies_file_path, widgets,
                   download_btn, open_last_save_btn, status_display, queue>>

\* run, lines 63-64
RunExcept(w) ==
    /\ worker[w].pc = "except"
    /\ Emit(w, [worker[w] EXCEPT !.pc = "finish"],
            <<Output(w, <<"Error: ", worker[w].err>>, "error")>>)
    /\ UNCHANGED <<configFile, phase, settings, cookies_file_path, widgets,
                   download_btn, open_last_save_btn, status_display>>

\* run, line 65
RunFinish(w) ==
    /\ worker[w].pc = "finish"
    /\ Emit(w, [worker[w] EXCEPT !.pc = "done"], <<Finished(w)>>)
    /\ UNCHANGED <<configFile, phase, settings, cookies_file_path, widgets,
                   download_btn, open_last_save_btn, status_display>>

----------------------------------------------------------------------------
(* The UI thread: Download, and the slots connected to the worker's signals *)

\* _resolve_download_dirs without the tests of "if not dir_path"
_resolve_download_dirs_NoCancel(ao, vd, ad, override_save, dir_path) ==
    IF ~override_save THEN <<vd, ad>>
    ELSE IF ao THEN <<vd, dir_path>>
    ELSE <<dir_path, ad>>

\* _resolve_download_dirs; dir_path is what the directory dialog returns
_resolve_download_dirs(ao, vd, ad, override_save, dir_path) ==
    IF ~override_save THEN <<vd, ad>>
    ELSE IF dir_path = <<>> THEN <<None, None>>
    ELSE IF ao THEN <<vd, dir_path>>
    ELSE <<dir_path, ad>>

\* _get_cookies_selection with the browser tested before the file
_get_cookies_selection_BrowserFirst ==
    IF use_cookies_checkbox
    THEN LET profile == Strip(cookies_profile_input) IN
         <<IF profile # <<>>
           THEN cookies_browser_combo \o <<":">> \o profile
           ELSE cookies_browser_combo,
           None>>
    ELSE IF use_cookies_file_checkbox /\ cookies_file_path # <<>>
         THEN <<None, cookies_file_path>>
         ELSE <<None, None>>

_get_cookies_selection ==
    IF use_cookies_file_checkbox /\ cookies_file_path # <<>>
    THEN <<None, cookies_file_path>>
    ELSE IF use_cookies_checkbox
         THEN LET profile == Strip(cookies_profile_input) IN
              <<IF profile # <<>>
                THEN cookies_browser_combo \o <<":">> \o profile
                ELSE cookies_browser_combo,
                None>>
         ELSE <<None, None>>

\* _start_worker without setEnabled(False)
StartedButtonState_Enabled == TRUE

\* the state in which _start_worker leaves the Download button
StartedButtonState == FALSE

_start_worker(url, vd, ad, ao, cb, cf) ==
    /\ download_btn' = StartedButtonState
    /\ status_display' = Append(status_display, <<>>)
    /\ \E w \in Workers :
         /\ worker[w].pc = "free"
         /\ \A v \in Workers : v < w => worker[v].pc # "free"
         /\ worker' = [worker EXCEPT ![w] = NewWorker(url, vd, ad, ao, cb, cf)]

\* start_download; dir_path is what the directory dialog returns if it is shown
start_download_with(dir_path) ==
    /\ phase = "ready"
    /\ download_btn             \* a disabled button is not clicked
    /\ Len(status_display) < MaxLog
    /\ LET url == Strip(url_input)
           dirs == _resolve_download_dirs(audio_only_checkbox, video_dir, audio_dir,
                                          override_save_location_checkbox, dir_path)
           target == IF audio_only_checkbox THEN dirs[2] ELSE dirs[1]
           cookies == _get_cookies_selection
       IN  IF url = <<>>
           THEN /\ status_display' = Append(status_display, <<"Please enter a URL.">>)
                /\ UNCHANGED <<last_save_dir, open_last_save_btn, download_btn, worker>>
           ELSE IF dirs[1] = None /\ dirs[2] = None
           THEN /\ status_display' = Append(status_display, <<"Download cancelled.">>)
                /\ UNCHANGED <<last_save_dir, open_last_save_btn, download_btn, worker>>
           ELSE /\ last_save_dir' = target
                /\ open_last_save_btn' = LastSaveButtonState(target)
                /\ _start_worker(url, dirs[1], dirs[2], audio_only_checkbox,
                                 cookies[1], cookies[2])
    /\ UNCHANGED <<configFile, phase, video_dir, audio_dir, window_size, size,
                   cookies_file_path, widgets, queue>>

start_download == \E dir_path \in PickedDirs : start_download_with(dir_path)

\* the state in which download_finished leaves the Download button
download_finished == TRUE

\* the UI thread handles the oldest signal: output is connected to
\* status_display.append; finished to download_finished, thread.quit and
\* worker.deleteLater
Deliver ==
    /\ queue # <<>>
    /\ LET ev == Head(queue) IN
       IF ev.kind = "output"
       THEN /\ status_display' = Append(status_display, ev.text)
            /\ UNCHANGED <<download_btn, worker>>
       ELSE /\ download_btn' = download_finished
            /\ worker' = [worker EXCEPT ![ev.w] = NoWorker]
            /\ UNCHANGED status_display
    /\ queue' = Tail(queue)
    /\ UNCHANGED <<configFile, phase, settings, cookies_file_path, widgets,
                   open_last_save_btn>>

----------------------------------------------------------------------------
(* Shutdown: closeEvent and save_config; the settings file as JSON *)

\* the sizes the user may give the window
WindowSizes == {<<800, 600>>, <<1024, 768>>}

\* the user resizes the window: no handler of the program runs
Resize ==
    /\ phase = "ready"
    /\ \E wh \in WindowSizes : size' = wh
    /\ UNCHANGED <<configFile, phase, video_dir, audio_dir, last_save_dir, window_size,
                   cookies_file_path, widgets, download_btn, open_last_save_btn,
                   status_display, worker, queue>>

\* json.dump without the escapes
json_escape_None(t) == t

\* the characters of a str as json.dump writes them: \ and " get a \ in front
RECURSIVE json_escape(_)
json_escape(t) ==
    IF t = <<>> THEN <<>>
    ELSE IF Head(t) \in {"\\", "\""} THEN <<"\\", Head(t)>> \o json_escape(Tail(t))
    ELSE <<Head(t)>> \o json_escape(Tail(t))

\* the characters of a JSON string as json.load reads them
RECURSIVE json_unescape(_)
json_unescape(j) ==
    IF j = <<>> THEN <<>>
    ELSE IF Head(j) = "\\" /\ Len(j) >= 2 THEN <<j[2]>> \o json_unescape(Tail(Tail(j)))
    ELSE <<Head(j)>> \o json_unescape(Tail(j))

\* a str as a JSON string, and back
json_dump_str(t) == <<"\"">> \o json_escape(t) \o <<"\"">>
json_load_str(j) == json_unescape(SubSeq(j, 2, Len(j) - 1))

\* the dict save_config builds
save_dict ==
    [video_dir |-> video_dir, audio_dir |-> audio_dir, last_save_dir |-> last_save_dir,
     window_size |-> <<size[1], size[2]>>]

\* json.dump(config, f): the text written for each key
json_dump(config) ==
    [video_dir |-> json_dump_str(config.video_dir),
     audio_dir |-> json_dump_str(config.audio_dir),
     last_save_dir |-> json_dump_str(config.last_save_dir),
     window_size |-> config.window_size]

\* json.load(f) of that text: the object held by the file
json_load(text) ==
    ConfigObject(Val(json_load_str(text.video_dir)), Val(json_load_str(text.audio_dir)),
                 Val(json_load_str(text.last_save_dir)), Val(text.window_size))

\* save_config: the file it leaves.  open(CONFIG_FILE, "w") or the write may
\* raise; the exception is swallowed
save_config(outcome) ==
    IF outcome = "written" THEN json_load(json_dump(save_dict))
    ELSE IF outcome = "open fails" THEN configFile
    ELSE ConfigOther("garbage")     \* the file was truncated, the write failed

SaveOutcomes == {"written", "open fails", "write fails"}

\* closeEvent with one outcome of save_config; the event loop ends
closeEvent_with(outcome) ==
    /\ phase = "ready"
    /\ configFile' = save_config(outcome)
    /\ phase' = "closed"
    /\ UNCHANGED <<settings, cookies_file_path, widgets, download_btn,
                   open_last_save_btn, status_display, worker, queue>>

closeEvent == \E outcome \in SaveOutcomes : closeEvent_with(outcome)

----------------------------------------------------------------------------
(* Specifications *)

InitWith(configs) ==
    /\ configFile \in configs
    /\ phase = "boot"
    /\ video_dir = HOME
    /\ audio_dir = HOME
    /\ last_save_dir = <<>>
    /\ window_size = NoWindowSize
    /\ size = DefaultSize
    /\ cookies_file_path = <<>>
    /\ url_input = EmptyForm.url_input
    /\ audio_only_checkbox = EmptyForm.audio_only_checkbox
    /\ override_save_location_checkbox = EmptyForm.override_save_location_checkbox
    /\ use_cookies_checkbox = EmptyForm.use_cookies_checkbox
    /\ use_cookies_file_checkbox = EmptyForm.use_cookies_file_checkbox
    /\ cookies_browser_combo = EmptyForm.cookies_browser_combo
    /\ cookies_profile_input = EmptyForm.cookies_profile_input
    /\ download_btn = TRUE
    /\ open_last_save_btn = FALSE
    /\ status_display = <<>>
    /\ worker = [w \in Workers |-> NoWorker]
    /\ queue = <<>>

Init == InitWith(SessionConfigFiles)

Run == \E w \in Workers :
          RunBuild(w) \/ RunSpawn(w) \/ RunRead(w) \/ RunWait(w) \/ RunExcept(w)
             \/ RunFinish(w)

Next ==
    \/ Construct
    \/ EditForm(SessionForms)
    \/ choose_video_dir
    \/ start_download
    \/ Run
    \/ Deliver

Spec == Init /\ [][Next]_vars

\* start-up alone, against every settings file
InitStartup == InitWith(ConfigFiles)

SpecStartup == InitStartup /\ [][Construct]_vars

\* the path from the form to the command line, against every form
InitCommand == InitWith({ConfigOther("absent")})

NextCommand ==
    \/ Construct
    \/ EditForm(CommandForms)
    \/ choose_cookies_file
    \/ choose_video_dir
    \/ choose_audio_dir
    \/ start_download
    \/ \E w \in Workers : RunBuild(w)

SpecCommand == InitCommand /\ [][NextCommand]_vars

\* a session from start-up to shutdown, without the runs of the workers
SettingsConfigFiles ==
    {ConfigOther("absent"),
     ConfigObject(Val(<<"C:", "\\", "dl">>), Val(<<"/my", " ", "\"", "music", "\"">>),
                  Val(<<>>), Val(<<800, 600>>))}

InitSettings == InitWith(SettingsConfigFiles)

NextSettings ==
    \/ Construct
    \/ EditForm(SessionForms)
    \/ choose_video_dir
    \/ choose_audio_dir
    \/ Resize
    \/ start_download
    \/ closeEvent

SpecSettings == InitSettings /\ [][NextSettings]_vars

----------------------------------------------------------------------------
(* Properties *)

Last(s) == s[Len(s)]

IsChildLine(ev) == ev.from = "child"

IsFinished(ev) == ev.kind = "finished"

\* the positions of the finished signals among the signals a worker has emitted
FinishedAt(w) == {i \in 1 .. Len(worker[w].emitted) : IsFinished(worker[w].emitted[i])}

\* the kinds and texts of the signals a worker has emitted, in order
Events(w) == [i \in 1 .. Len(worker[w].emitted) |->
                 <<worker[w].emitted[i].kind, worker[w].emitted[i].text>>]

Running(w) == worker[w].pc \in {"new", "spawn", "read", "wait", "except", "finish"}

\* C1: a run emits finished exactly once, as its last signal, on every path
\* (normal exit, failed spawn, failed read): no finished before run has ended,
\* exactly one, in last place, once it has, and a run that has not ended can
\* always take its next step; the lines of the child are emitted in the order
\* in which the child wrote them.
C1_OneFinishedAfterAllOutput ==
    \A w \in Workers :
        LET e == worker[w].emitted
            lines == SelectSeq(e, IsChildLine)
        IN  /\ FinishedAt(w) = IF worker[w].pc = "done" THEN {Len(e)} ELSE {}
            /\ worker[w].pc = "done" => Len(e) > 0
            /\ Len(lines) = worker[w].nread
            /\ \A i \in 1 .. Len(lines) : lines[i].text = <<Letters[i]>>
            /\ Running(w) =>
                 ENABLED (RunBuild(w) \/ RunSpawn(w) \/ RunRead(w) \/ RunWait(w)
                            \/ RunExcept(w) \/ RunFinish(w))

\* C1 witness: a run has ended after reading two lines and then failing to read
C1_Witness ==
    \E w \in Workers :
        worker[w].pc = "done" /\ worker[w].err = ReadError /\ worker[w].nread >= 2

\* a worker object exists: its run was started and its finished signal has not
\* been handled yet
InFlight == {w \in Workers : worker[w].pc # "free"}

\* C2: at most one run is in flight; the Download button is disabled exactly
\* while one is; and the only step that enables the button is the handling of
\* a finished signal, which ends that run.
C2_AtMostOneRunner ==
    /\ [](Cardinality(InFlight) <= 1 /\ (download_btn <=> InFlight = {}))
    /\ [][(~download_btn /\ download_btn') =>
            /\ queue # <<>>
            /\ IsFinished(Head(queue))
            /\ queue' = Tail(queue)
            /\ InFlight = {Head(queue).w}
            /\ worker[Head(queue).w].pc = "done"]_vars

\* C2 witness: a second run is reading while the log shows the end of a first
C2_Witness ==
    /\ \E w \in Workers : worker[w].pc = "read"
    /\ \E i \in 1 .. Len(status_display) : status_display[i] = <<"Download finished.">>

\* C3: once a run whose child was spawned has emitted finished, the child has
\* been waited on and its output stream has been closed.
C3_ReleasedBeforeFinished ==
    \A w \in Workers :
        (worker[w].spawned /\ FinishedAt(w) # {}) =>
            worker[w].waited /\ worker[w].stdout_closed

\* C4: a run whose spawn failed emits exactly one line with the error text,
\* as its last line, then finished, exactly once; it emits no "Download
\* finished." line, the application is still running, and once the finished
\* signal is handled the Download button is enabled again.
C4_SpawnFailureReported ==
    /\ \A w \in Workers :
         (worker[w].pc = "done" /\ worker[w].err = SpawnError) =>
            LET e == worker[w].emitted IN
            /\ {i \in 1 .. Len(e) : \E j \in 1 .. Len(e[i].text) : e[i].text[j] = SpawnError}
                 = {Len(e) - 1}
            /\ e[Len(e) - 1].kind = "output"
            /\ FinishedAt(w) = {Len(e)}
            /\ \A i \in 1 .. Len(e) : e[i].text # <<"Download finished.">>
            /\ ~worker[w].spawned
            /\ phase = "ready"
    /\ (/\ status_display # <<>>
        /\ Last(status_display) = <<"Error: ", SpawnError>>
        /\ InFlight = {})
          => download_btn /\ phase = "ready"

\* C4 witness: the finished signal of a run whose spawn failed has been handled
C4_Witness ==
    /\ status_display # <<>>
    /\ Last(status_display) = <<"Error: ", SpawnError>>
    /\ InFlight = {}

\* a click on Download that is refused: the trimmed URL is empty, or the
\* override dialog is shown and cancelled
RefusedEmptyUrl == start_download /\ Strip(url_input) = <<>>
RefusedCancelled ==
    /\ start_download_with(<<>>)
    /\ Strip(url_input) # <<>>
    /\ override_save_location_checkbox

\* C5: a refused click creates no worker, emits nothing, appends its message
\* to the log and leaves the Download button, last_save_dir, video_dir and
\* audio_dir as they were.
C5_RefusedClickStartsNothing ==
    [][(RefusedEmptyUrl \/ RefusedCancelled) =>
         /\ worker' = worker
         /\ queue' = queue
         /\ download_btn' = download_btn
         /\ last_save_dir' = last_save_dir
         /\ video_dir' = video_dir
         /\ audio_dir' = audio_dir
         /\ status_display' =
              Append(status_display,
                     IF Strip(url_input) = <<>> THEN <<"Please enter a URL.">>
                                                ELSE <<"Download cancelled.">>)]_vars

\* C5 witness: both refusals have happened, and no run was started
C5_Witness ==
    /\ \E i \in 1 .. Len(status_display) : status_display[i] = <<"Please enter a URL.">>
    /\ \E i \in 1 .. Len(status_display) : status_display[i] = <<"Download cancelled.">>
    /\ \A i \in 1 .. Len(status_display) : status_display[i] # <<>>
    /\ InFlight = {}
    /\ download_btn

\* the directory a worker downloads to
TargetDir(self) == IF self.audio_only THEN self.audio_dir ELSE self.video_dir

\* C6: the target directory of every run that was started exists.
C6_TargetDirExists ==
    \A w \in Workers : worker[w].pc # "free" => isdir(TargetDir(worker[w]))

\* the arguments between the directory and the URL
CookieFlags(cmd, ao) == SubSeq(cmd, IF ao THEN 7 ELSE 4, Len(cmd) - 1)

\* C7: the command a worker has built is yt-dlp, the mode's options with the
\* mode's own directory after the only -P, at most one pair of cookie
\* arguments, and the URL in last place; when the two directories differ, the
\* directory of the other mode is no argument.
C7_ArgumentVector ==
    \A w \in Workers :
        worker[w].pc \notin {"free", "new"} =>
            LET self == worker[w]
                cmd == self.cmd
                k == IF self.audio_only THEN 6 ELSE 3
            IN  /\ Len(cmd) > k
                /\ SubSeq(cmd, 1, k) =
                     IF self.audio_only
                     THEN <<<<"yt-dlp">>, <<"-x">>, <<"--audio-format">>, <<"mp3">>,
                            <<"-P">>, self.audio_dir>>
                     ELSE <<<<"yt-dlp">>, <<"-P">>, self.video_dir>>
                /\ Last(cmd) = self.url
                /\ CookieFlags(cmd, self.audio_only) \in
                     {<<>>, <<<<"--cookies">>, self.cookies_file>>,
                      <<<<"--cookies-from-browser">>, self.cookies_browser>>}
                /\ Cardinality({i \in 1 .. Len(cmd) : cmd[i] = <<"-P">>}) = 1
                /\ self.video_dir # self.audio_dir =>
                     \A i \in 1 .. Len(cmd) :
                        cmd[i] # IF self.audio_only THEN self.video_dir ELSE self.audio_dir

\* C7 witness: an audio command with cookie arguments was built while the two
\* directories differ
C7_Witness ==
    \E w \in Workers :
        /\ worker[w].pc = "spawn"
        /\ worker[w].audio_only
        /\ worker[w].video_dir # worker[w].audio_dir
        /\ Len(worker[w].cmd) = 9

\* a step of start_download that creates worker w
StartsWorker(w) == worker[w].pc = "free" /\ worker'[w].pc = "new"

\* a cookie file is set: its checkbox is checked and a file was chosen
FileSet == use_cookies_file_checkbox /\ cookies_file_path # <<>>

\* the browser is selected: its checkbox is checked
BrowserSet == use_cookies_checkbox

BrowserArg ==
    IF Strip(cookies_profile_input) # <<>>
    THEN cookies_browser_combo \o <<":">> \o Strip(cookies_profile_input)
    ELSE cookies_browser_combo

\* the cookie arguments of the command that a worker created in this step builds
CookieFlagsOf(w) == CookieFlags(BuildCmd(worker'[w]), worker'[w].audio_only)

AtMostOneCookieFlag(flags) ==
    ~(\E i, j \in 1 .. Len(flags) :
         flags[i] = <<"--cookies">> /\ flags[j] = <<"--cookies-from-browser">>)

\* C8 as stated: [--cookies, file] when file and browser are both set, the
\* browser arguments when only the browser is selected, no cookie argument
\* otherwise.
C8_CookieFlagsAsStated ==
    [][\A w \in Workers : StartsWorker(w) =>
         /\ AtMostOneCookieFlag(CookieFlagsOf(w))
         /\ CookieFlagsOf(w) =
              IF FileSet /\ BrowserSet THEN <<<<"--cookies">>, cookies_file_path>>
              ELSE IF BrowserSet THEN <<<<"--cookies-from-browser">>, BrowserArg>>
              ELSE <<>>]_vars

\* C8 as amended: [--cookies, file] whenever a cookie file is set, with or
\* without the browser; else the browser arguments, browser:profile with the
\* trimmed profile or the browser alone, when the browser is selected; else
\* no cookie argument.  Never both options.
C8_CookieFlags ==
    [][\A w \in Workers : StartsWorker(w) =>
         /\ AtMostOneCookieFlag(CookieFlagsOf(w))
         /\ CookieFlagsOf(w) =
              IF FileSet THEN <<<<"--cookies">>, cookies_file_path>>
              ELSE IF BrowserSet THEN <<<<"--cookies-from-browser">>, BrowserArg>>
              ELSE <<>>
         /\ (BrowserSet /\ ~FileSet /\ cookies_browser_combo = <<"firefox">>) =>
              /\ cookies_profile_input = <<" ", "Default", " ">> =>
                   CookieFlagsOf(w)[2] = <<"firefox", ":", "Default">>
              /\ cookies_profile_input \in {<<>>, <<" ">>} =>
                   CookieFlagsOf(w)[2] = <<"firefox">>]_vars

\* C8 witness: a worker was created with a cookie file while both checkboxes
\* are checked
C8_Witness ==
    \E w \in Workers :
        /\ worker[w].pc = "new"
        /\ worker[w].cookies_file = <<"/c.txt">>
        /\ worker[w].cookies_browser = None
        /\ FileSet /\ BrowserSet

\* C9: start-up ends with the window constructed; with no settings file or
\* one that cannot be used the defaults stay; with a settings object every
\* absent key keeps its default and no size is restored without window_size.
C9_StartupNeverFails ==
    phase # "boot" =>
        /\ phase = "ready"
        /\ configFile.kind # "object" =>
             /\ video_dir = HOME /\ audio_dir = HOME /\ last_save_dir = <<>>
             /\ ~window_size.has /\ size = DefaultSize
        /\ configFile.kind = "object" =>
             /\ video_dir = Get(configFile.video_dir, HOME)
             /\ audio_dir = Get(configFile.audio_dir, HOME)
             /\ last_save_dir = Get(configFile.last_save_dir, <<>>)
             /\ size = Get(configFile.window_size, DefaultSize)

\* a run whose child wrote the lines A, B, C and exited
RanABC(w) == worker[w].pc = "done" /\ worker[w].err = "" /\ worker[w].nread = 3

\* C10 as stated: such a run emits line(A), line(B), line(C), completed() and
\* nothing else.
C10_EventsAsStated ==
    \A w \in Workers :
        RanABC(w) =>
            Events(w) = <<<<"output", <<"A">>>>, <<"output", <<"B">>>>,
                          <<"output", <<"C">>>>, <<"finished", <<>>>>>>

\* C10 as amended: such a run emits the line that announces the download, the
\* line that names the cookies when cookies are used, then line(A), line(B),
\* line(C), line("Download finished."), completed(), and nothing else.
C10_Events ==
    \A w \in Workers :
        RanABC(w) =>
            LET e == Events(w)
                n == Len(e)
                cookies == Truthy(worker[w].cookies_file) \/ Truthy(worker[w].cookies_browser)
            IN  /\ n = IF cookies THEN 7 ELSE 6
                /\ e[1][1] = "output"
                /\ e[1][2][1] \in {"Starting video download: ", "Starting audio download: "}
                /\ cookies =>
                     /\ e[2][1] = "output"
                     /\ e[2][2][1] \in {"Using cookies file: ", "Using cookies from browser: "}
                /\ SubSeq(e, n - 4, n) =
                     <<<<"output", <<"A">>>>, <<"output", <<"B">>>>, <<"output", <<"C">>>>,
                       <<"output", <<"Download finished.">>>>, <<"finished", <<>>>>>>

\* C10 witness: such a run has ended, with cookies in use
C10_Witness ==
    \E w \in Workers : RanABC(w) /\ Len(worker[w].emitted) = 7

\* what load_config gives for the file a step leaves is what was to be saved
LoadsWhatWasSaved ==
    LET loaded == load_config(configFile', Defaults) IN
    /\ loaded.video_dir = video_dir
    /\ loaded.audio_dir = audio_dir
    /\ loaded.last_save_dir = last_save_dir
    /\ loaded.window_size.has /\ ~loaded.window_size.none
    /\ loaded.window_size.v = size

====
